---- MODULE Spec2Model ----
(***************************************************************************)
(* Model of the CS2 trade-up valuation engine: TradeupCalculator           *)
(* (src/src/calculator/tradeup_engine.py), ProbabilityCalculator           *)
(* (src/src/calculator/probability_calc.py), CollectionsDatabase           *)
(* (src/src/data/collections_database.py) and the CSFloatAPI client        *)
(* (src/src/data/market_api.py).                                           *)
(*                                                                         *)
(* The calculators and the database are stateless.  For them the state of *)
(* the model is the record of the last call: the operation, its arguments  *)
(* and what it returned or raised.  Python floats are modelled as exact    *)
(* rationals <<n, d>> in lowest terms with d > 0; floating-point rounding  *)
(* is outside the model.                                                   *)
(* Square roots are exact on squares of rationals and otherwise rounded up *)
(* to a multiple of 1/resolution.                                          *)
(***************************************************************************)
EXTENDS Integers, Sequences, FiniteSets, TLC

VARIABLES op, args, ret

\* The CSFloatAPI client of src/src/data/market_api.py keeps a request counter:
\* api is the instance (NoAPI before construction), clock the value of
\* time.time().  returned_at and returns_since_start are history variables:
\* the times at which the _rate_limit calls of the last minute returned, and
\* the number of calls that have returned since minute_start_time was set.
VARIABLES api, clock, returned_at, returns_since_start

calcVars == <<op, args, ret>>
apiVars == <<api, clock, returned_at, returns_since_start>>
vars == <<op, args, ret, api, clock, returned_at, returns_since_start>>

----------------------------------------------------------------------------
(* Bounds of the model *)

\* longest item list handed to validate_tradeup_inputs / TradeupInput
MaxLen == 11
\* longest input list (other than a full contract of ten) handed to
\* ProbabilityCalculator.calculate_outcome_probabilities
MaxFloatInputs == 3
\* longest outcome pool
MaxPoolLen == 3
\* longest outcome pool handed to calculate_outcome_probabilities together
\* with a list of input items
MaxDistPoolLen == 2
\* resolution of statistics.stdev on input floats when the root is irrational
FloatSqrtRes == 100
\* resolution of math.sqrt when the root is irrational
MathSqrtRes == 100

\* float values handed to WearTier.from_float are the multiples of 1/FloatGrid
\* in [0, 1], together with the tier boundaries
FloatGrid == 200
\* largest configured max_requests_per_minute
MaxRequests == 2
\* longest response of get_collection_skins
MaxListings == 3
\* the clock stops advancing at MaxClock seconds
MaxClock == 125

----------------------------------------------------------------------------
(* Exact rational arithmetic *)

Abs(x) == IF x < 0 THEN -x ELSE x

RECURSIVE GCD(_, _)
GCD(a, b) == IF b = 0 THEN a ELSE GCD(b, a % b)

\* the rational n/d in lowest terms with a positive denominator
Q(n, d) ==
    LET s == IF d < 0 THEN -1 ELSE 1
        g == GCD(Abs(n), Abs(d))
    IN  <<(s * n) \div g, (s * d) \div g>>

QInt(n) == <<n, 1>>
QZero == <<0, 1>>
QOne == <<1, 1>>
\* sums and comparisons go through the least common denominator and
\* products cancel crosswise, so that intermediate values stay small
QAdd(x, y) ==
    IF y[1] = 0 THEN x
    ELSE IF x[1] = 0 THEN y
    ELSE LET g == GCD(x[2], y[2])
         IN  Q(x[1] * (y[2] \div g) + y[1] * (x[2] \div g), (x[2] \div g) * y[2])
QNeg(x) == <<-x[1], x[2]>>
QSub(x, y) == QAdd(x, QNeg(y))
QMul(x, y) ==
    IF x[1] = 0 \/ y[1] = 0 THEN QZero
    ELSE LET g1 == GCD(Abs(x[1]), y[2])
             g2 == GCD(Abs(y[1]), x[2])
         IN  Q((x[1] \div g1) * (y[1] \div g2), (x[2] \div g2) * (y[2] \div g1))
QInv(x) == IF x[1] < 0 THEN <<-x[2], -x[1]>> ELSE <<x[2], x[1]>>
QDiv(x, y) == QMul(x, QInv(y))
QLt(x, y) ==
    LET g == GCD(x[2], y[2])
    IN  x[1] * (y[2] \div g) < y[1] * (x[2] \div g)
QLe(x, y) == ~QLt(y, x)
QMax(x, y) == IF QLt(x, y) THEN y ELSE x
QMin(x, y) == IF QLt(y, x) THEN y ELSE x

\* the sum of a list, taken by halves (the sum of rationals is exact, so
\* the order of the additions does not matter)
RECURSIVE QSum(_)
QSum(s) ==
    IF s = <<>> THEN QZero
    ELSE IF Len(s) = 1 THEN s[1]
    ELSE LET h == Len(s) \div 2
         IN  QAdd(QSum(SubSeq(s, 1, h)), QSum(SubSeq(s, h + 1, Len(s))))

RECURSIVE IntSum(_)
IntSum(s) == IF s = <<>> THEN 0 ELSE Head(s) + IntSum(Tail(s))

RECURSIVE QMaxSeq(_)
QMaxSeq(s) == IF Len(s) = 1 THEN s[1] ELSE QMax(s[1], QMaxSeq(Tail(s)))

\* a minimum that takes the first element without looking at the rest
QMinSeqFirst(s) == s[1]

RECURSIVE QMinSeq(_)
QMinSeq(s) == IF Len(s) = 1 THEN s[1] ELSE QMin(s[1], QMinSeq(Tail(s)))

\* floor of the square root of a natural number
RECURSIVE ISqrt(_)
ISqrt(n) ==
    IF n < 2 THEN n
    ELSE LET r == 2 * ISqrt(n \div 4)
         IN  IF (r + 1) * (r + 1) <= n THEN r + 1 ELSE r

IsSquare(n) == ISqrt(n) * ISqrt(n) = n

\* square root of a rational x >= 0: exact when x is the square of a
\* rational, else the least multiple of 1/res that is not below the root
SqrtQ(x, res) ==
    IF IsSquare(x[1]) /\ IsSquare(x[2])
    THEN Q(ISqrt(x[1]), ISqrt(x[2]))
    ELSE LET m == (x[1] \div x[2]) * res * res + ((x[1] % x[2]) * res * res) \div x[2]
         IN  Q(ISqrt(m) + 1, res)

Range(s) == {s[i] : i \in DOMAIN s}

----------------------------------------------------------------------------
(* SkinData and the items the callers draw from *)

SkinData(name, coll, rar, fl, price, wear, st, sv) ==
    [market_hash_name |-> name, collection |-> coll, rarity |-> rar,
     float_value |-> fl, price_cents |-> price, wear_name |-> wear,
     is_stattrak |-> st, is_souvenir |-> sv]

\* candidate input items
InputCatalog ==
    { SkinData("P250 | Sand Dune (MW)", "Dust 2", "Restricted", Q(10, 100), 15,
               "Minimal Wear", FALSE, FALSE),
      SkinData("Nova | Predator (WW)", "Dust 2", "Restricted", Q(40, 100), 10,
               "Well-Worn", FALSE, FALSE),
      SkinData("StatTrak MP9 (FN)", "Dust 2", "Restricted", Q(0, 100), 30,
               "Factory New", TRUE, FALSE),
      SkinData("Souvenir P90 (BS)", "Dust 2", "Restricted", Q(100, 100), 0,
               "Battle-Scarred", FALSE, TRUE),
      SkinData("Tec-9 | VariCamo (MW)", "Dust 2", "Classified", Q(10, 100), 0,
               "Minimal Wear", FALSE, FALSE),
      SkinData("Both flags (MW)", "Dust 2", "Restricted", Q(7, 100), 45,
               "Minimal Wear", TRUE, TRUE) }

\* the list of n items whose first k are b and whose others are a
ItemList(a, b, k, n) == [i \in 1..n |-> IF i <= k THEN b ELSE a]

ItemLists(n) ==
    { ItemList(a, b, k, n) : a \in InputCatalog, b \in InputCatalog, k \in 0..n }

\* candidate outcome items, by market_hash_name
OutcomeNames == {"A", "B", "C"}

OutcomePrice(name) ==
    CASE name = "A" -> 100
      [] name = "B" -> 300
      [] name = "C" -> 100

OutcomeSkin(name) ==
    SkinData(name, "Dust 2", "Classified", Q(20, 100), OutcomePrice(name),
             "Field-Tested", FALSE, FALSE)

RECURSIVE SeqsUpTo(_, _)
SeqsUpTo(S, n) ==
    IF n = 0 THEN {<<>>}
    ELSE LET shorter == SeqsUpTo(S, n - 1)
         IN  shorter \cup {Append(s, x) : s \in {t \in shorter : Len(t) = n - 1}, x \in S}

\* outcome pools: sequences of outcome items, names not necessarily distinct
PoolsUpTo(n) == {[i \in DOMAIN s |-> OutcomeSkin(s[i])] : s \in SeqsUpTo(OutcomeNames, n)}

Pools == PoolsUpTo(MaxPoolLen)

----------------------------------------------------------------------------
(* tradeup_engine.py: TradeupInput, validate_tradeup_inputs *)

TradeupSize == 10

NoRaise == "none"

\* TradeupInput.__post_init__
TradeupInput(input_skins) ==
    IF Len(input_skins) # TradeupSize
    THEN [raised |-> "ValueError",
          msg |-> "Tradeup contract requires exactly 10 input skins"]
    ELSE [raised |-> NoRaise, input_skins |-> input_skins]

IsStattrak(skin) == skin.is_stattrak
IsSouvenir(skin) == skin.is_souvenir

StattrakCount(s) == Cardinality({i \in DOMAIN s : IsStattrak(s[i])})
SouvenirCount(s) == Cardinality({i \in DOMAIN s : IsSouvenir(s[i])})

\* a count message that names the required count instead of the actual one
MsgCountRequired(n) == "Tradeup requires exactly 10 skins, got " \o ToString(TradeupSize)
MsgCount(n) == "Tradeup requires exactly 10 skins, got " \o ToString(n)
MsgRarity(rarities) == "All input skins must be same rarity, found: " \o ToString(rarities)
MsgStattrak == "Either all or no input skins can be StatTrak"
MsgSouvenir == "Either all or no input skins can be Souvenir"
MsgMix == "Cannot mix StatTrak and Souvenir skins"

\* the conditions of the four checks made on a list of ten
RarityMixed(rarities) == Cardinality(rarities) > 1
\* a StatTrak check that objects to any StatTrak item, ten of them included
StattrakPresent(stattrak_count) == stattrak_count > 0
StattrakInconsistent(stattrak_count) == stattrak_count > 0 /\ stattrak_count # TradeupSize
SouvenirInconsistent(souvenir_count) == souvenir_count > 0 /\ souvenir_count # TradeupSize
\* a mix check that also asks for the counts to differ misses ten items that
\* carry both flags
MixesVariantsUnequal(stattrak_count, souvenir_count) ==
    stattrak_count > 0 /\ souvenir_count > 0 /\ stattrak_count # souvenir_count
MixesVariants(stattrak_count, souvenir_count) == stattrak_count > 0 /\ souvenir_count > 0

\* the errors found on a list of ten items, each check made in turn
ContractErrors(input_skins) ==
    LET rarities == {input_skins[i].rarity : i \in DOMAIN input_skins}
        stattrak_count == StattrakCount(input_skins)
        souvenir_count == SouvenirCount(input_skins)
        e1 == IF RarityMixed(rarities) THEN <<MsgRarity(rarities)>> ELSE <<>>
        e2 == IF StattrakInconsistent(stattrak_count) THEN <<MsgStattrak>> ELSE <<>>
        e3 == IF SouvenirInconsistent(souvenir_count) THEN <<MsgSouvenir>> ELSE <<>>
        e4 == IF MixesVariants(stattrak_count, souvenir_count) THEN <<MsgMix>> ELSE <<>>
    IN  e1 \o e2 \o e3 \o e4

\* a validator that stops at the first failing check, as the count check does
validate_first_error_only(input_skins) ==
    IF Len(input_skins) # TradeupSize
    THEN <<MsgCount(Len(input_skins))>>
    ELSE LET errors == ContractErrors(input_skins)
         IN  IF errors = <<>> THEN <<>> ELSE <<Head(errors)>>

\* TradeupCalculator.validate_tradeup_inputs: the list of errors; a wrong
\* count is reported alone (the early return)
validate_tradeup_inputs(input_skins) ==
    IF Len(input_skins) # TradeupSize
    THEN <<MsgCount(Len(input_skins))>>
    ELSE ContractErrors(input_skins)

----------------------------------------------------------------------------
(* tradeup_engine.py: calculate_expected_value and its helpers *)

\* a sum that stops one item short of the end of the list
_calculate_input_cost_short(input_skins) ==
    IntSum([i \in 1..(Len(input_skins) - 1) |-> input_skins[i].price_cents])

_calculate_input_cost(input_skins) ==
    IntSum([i \in DOMAIN input_skins |-> input_skins[i].price_cents])

\* (min, max) of the input floats; the mean the code also computes is unused
\* a range collapsed onto the average of the input floats
_calculate_output_float_range_average(input_skins) ==
    LET input_floats == [i \in DOMAIN input_skins |-> input_skins[i].float_value]
        avg_input_float == QDiv(QSum(input_floats), QInt(Len(input_floats)))
    IN  <<avg_input_float, avg_input_float>>

_calculate_output_float_range(input_skins) ==
    LET input_floats == [i \in DOMAIN input_skins |-> input_skins[i].float_value]
    IN  <<QMinSeq(input_floats), QMaxSeq(input_floats)>>

\* a filter that loses the first candidate
_filter_outcomes_drop_first(outcome_skins, float_range) == Tail(outcome_skins)

_filter_outcomes_by_float_range(outcome_skins, float_range) == outcome_skins

TradeupOutcome(skin, p, range) ==
    [skin_data |-> skin, probability |-> p, expected_float_range |-> range]

_calculate_outcome_probabilities(outcome_skins, float_range) ==
    IF outcome_skins = <<>> THEN <<>>
    ELSE LET valid_outcomes == _filter_outcomes_by_float_range(outcome_skins, float_range)
         IN  IF valid_outcomes = <<>> THEN <<>>
             ELSE LET probability_per_outcome == Q(1, Len(valid_outcomes))
                  IN  [i \in DOMAIN valid_outcomes |->
                          TradeupOutcome(valid_outcomes[i], probability_per_outcome,
                                         float_range)]

\* the strict comparison, which leaves out an outcome priced exactly at cost
BreakEvenCountsStrict(price_cents, input_cost) == price_cents > input_cost

\* the comparison that selects the outcomes counted by the break-even probability
BreakEvenCounts(price_cents, input_cost) == price_cents >= input_cost

_calculate_break_even_probability(input_cost, outcomes) ==
    IF outcomes = <<>> THEN QZero
    ELSE LET profitable_outcomes ==
                 SelectSeq(outcomes,
                           LAMBDA o : BreakEvenCounts(o.skin_data.price_cents, input_cost))
         IN  IF profitable_outcomes = <<>> THEN QOne
             ELSE QSum([i \in DOMAIN profitable_outcomes |->
                           profitable_outcomes[i].probability])

\* a margin left as a fraction, not a percentage
ProfitMarginFraction(expected_profit, total_input_cost) ==
    IF total_input_cost > 0
    THEN QDiv(expected_profit, QInt(total_input_cost))
    ELSE QZero

\* (expected_profit / total_input_cost) * 100 if total_input_cost > 0 else 0
ProfitMargin(expected_profit, total_input_cost) ==
    IF total_input_cost > 0
    THEN QMul(QDiv(expected_profit, QInt(total_input_cost)), QInt(100))
    ELSE QZero

calculate_expected_value(tradeup_input, outcome_collection_skins) ==
    LET total_input_cost == _calculate_input_cost(tradeup_input.input_skins)
        input_float_range == _calculate_output_float_range(tradeup_input.input_skins)
        possible_outcomes ==
            _calculate_outcome_probabilities(outcome_collection_skins, input_float_range)
        expected_output_value ==
            QSum([i \in DOMAIN possible_outcomes |->
                     QMul(QInt(possible_outcomes[i].skin_data.price_cents),
                          possible_outcomes[i].probability)])
        expected_profit == QSub(expected_output_value, QInt(total_input_cost))
        profit_margin == ProfitMargin(expected_profit, total_input_cost)
        break_even_prob ==
            _calculate_break_even_probability(total_input_cost, possible_outcomes)
    IN  [raised |-> NoRaise,
         total_input_cost_cents |-> total_input_cost,
         expected_output_value_cents |-> expected_output_value,
         expected_profit_cents |-> expected_profit,
         profit_margin_percent |-> profit_margin,
         possible_outcomes |-> possible_outcomes,
         break_even_probability |-> break_even_prob]

----------------------------------------------------------------------------
(* Python dicts: sequences of <<key, value>> pairs with distinct keys, in  *)
(* insertion order                                                         *)

EmptyDict == <<>>
DictKeys(d) == [i \in DOMAIN d |-> d[i][1]]
DictValues(d) == [i \in DOMAIN d |-> d[i][2]]
DictHas(d, k) == \E i \in DOMAIN d : d[i][1] = k
\* d.get(k, default)
DictGet(d, k, default) ==
    IF DictHas(d, k) THEN d[CHOOSE i \in DOMAIN d : d[i][1] = k][2] ELSE default
\* d[k] = v: an existing key keeps its place and takes the new value
DictSet(d, k, v) ==
    IF DictHas(d, k)
    THEN [i \in DOMAIN d |-> IF d[i][1] = k THEN <<k, v>> ELSE d[i]]
    ELSE Append(d, <<k, v>>)

\* the dict built by assigning the <<key, value>> pairs of s in order, as a
\* dict comprehension does
RECURSIVE DictFrom(_)
DictFrom(s) ==
    IF s = <<>> THEN EmptyDict
    ELSE LET n == Len(s)
         IN  DictSet(DictFrom(SubSeq(s, 1, n - 1)), s[n][1], s[n][2])

----------------------------------------------------------------------------
(* probability_calc.py: WearTier *)

WearTierOf(name, display_name, min_float, max_float) ==
    [name |-> name, display_name |-> display_name,
     min_float |-> min_float, max_float |-> max_float]

\* the members of the enum, in definition order
WearTier ==
    << WearTierOf("FACTORY_NEW", "Factory New", Q(0, 100), Q(7, 100)),
       WearTierOf("MINIMAL_WEAR", "Minimal Wear", Q(7, 100), Q(15, 100)),
       WearTierOf("FIELD_TESTED", "Field-Tested", Q(15, 100), Q(38, 100)),
       WearTierOf("WELL_WORN", "Well-Worn", Q(38, 100), Q(45, 100)),
       WearTierOf("BATTLE_SCARRED", "Battle-Scarred", Q(45, 100), Q(100, 100)) >>

BATTLE_SCARRED == WearTier[5]

\* a lookup with intervals closed on the right instead of the left
from_float_right_closed(float_value) ==
    LET hits == {i \in DOMAIN WearTier :
                    /\ QLt(WearTier[i].min_float, float_value)
                    /\ QLe(float_value, WearTier[i].max_float)}
    IN  IF hits = {} THEN BATTLE_SCARRED
        ELSE WearTier[CHOOSE i \in hits : \A j \in hits : i <= j]

\* WearTier.from_float
from_float(float_value) ==
    LET hits == {i \in DOMAIN WearTier :
                    /\ QLe(WearTier[i].min_float, float_value)
                    /\ QLt(float_value, WearTier[i].max_float)}
    IN  IF hits = {} THEN BATTLE_SCARRED
        ELSE WearTier[CHOOSE i \in hits : \A j \in hits : i <= j]

----------------------------------------------------------------------------
(* probability_calc.py: calculate_outcome_probabilities and its helpers *)

FloatsOf(input_skins) == [i \in DOMAIN input_skins |-> input_skins[i].float_value]

\* statistics.mean of a nonempty list
mean(xs) == QDiv(QSum(xs), QInt(Len(xs)))

\* statistics.pvariance: the population variance, with denominator n
pvariance(xs) ==
    LET m == QDiv(QSum(xs), QInt(Len(xs)))
        sq == [i \in DOMAIN xs |-> QMul(QSub(xs[i], m), QSub(xs[i], m))]
    IN  QDiv(QSum(sq), QInt(Len(xs)))

\* statistics.variance: the sample variance, for a list of two or more
variance(xs) ==
    LET m == mean(xs)
        sq == [i \in DOMAIN xs |-> QMul(QSub(xs[i], m), QSub(xs[i], m))]
    IN  QDiv(QSum(sq), QInt(Len(xs) - 1))

\* statistics.stdev
stdev(xs) == SqrtQ(variance(xs), FloatSqrtRes)

\* a tier probability taken as the share of the tier's own width that the
\* output range covers
TierProbabilityOfTierRange(tier, output_float_min, output_float_max, avg_float) ==
    LET overlap_min == QMax(output_float_min, tier.min_float)
        overlap_max == QMin(output_float_max, tier.max_float)
        tier_range == QSub(tier.max_float, tier.min_float)
    IN  IF QLt(overlap_min, overlap_max)
        THEN QDiv(QSub(overlap_max, overlap_min), tier_range)
        ELSE QZero

\* the probability one tier gets before normalisation
TierProbability(tier, output_float_min, output_float_max, avg_float) ==
    LET overlap_min == QMax(output_float_min, tier.min_float)
        overlap_max == QMin(output_float_max, tier.max_float)
    IN  IF QLt(overlap_min, overlap_max)
        THEN LET overlap_range == QSub(overlap_max, overlap_min)
                 output_range == QSub(output_float_max, output_float_min)
             IN  IF QLt(QZero, output_range)
                 THEN QDiv(overlap_range, output_range)
                 ELSE IF tier = from_float(avg_float) THEN QOne ELSE QZero
        ELSE QZero

\* a normalisation by the largest probability instead of the total
NormalizeByMax(wear_probabilities) ==
    LET max_prob == QMaxSeq(DictValues(wear_probabilities))
    IN  IF QLt(QZero, max_prob)
        THEN [i \in DOMAIN wear_probabilities |->
                 <<wear_probabilities[i][1], QDiv(wear_probabilities[i][2], max_prob)>>]
        ELSE wear_probabilities

\* the normalisation step: divide by the total when it is positive
Normalize(wear_probabilities) ==
    LET total_prob == QSum(DictValues(wear_probabilities))
    IN  IF QLt(QZero, total_prob)
        THEN [i \in DOMAIN wear_probabilities |->
                 <<wear_probabilities[i][1], QDiv(wear_probabilities[i][2], total_prob)>>]
        ELSE wear_probabilities

_calculate_float_distribution(input_skins, outcome_collection) ==
    LET input_floats == FloatsOf(input_skins)
    IN  IF input_floats = <<>>
        THEN [raised |-> "StatisticsError", msg |-> "mean requires at least one data point"]
        ELSE LET avg_float == mean(input_floats)
                 float_std == IF Len(input_floats) > 1 THEN stdev(input_floats) ELSE QZero
                 output_float_min == QMax(QZero, QSub(avg_float, float_std))
                 output_float_max == QMin(QOne, QAdd(avg_float, float_std))
                 wear_probabilities ==
                     [i \in DOMAIN WearTier |->
                         <<WearTier[i].name,
                           TierProbability(WearTier[i], output_float_min,
                                           output_float_max, avg_float)>>]
             IN  [raised |-> NoRaise, value |-> Normalize(wear_probabilities)]

_calculate_float_statistics(input_skins) ==
    LET input_floats == FloatsOf(input_skins)
    IN  IF input_floats = <<>> THEN <<QZero, QZero>>
        ELSE <<mean(input_floats),
               IF Len(input_floats) > 1 THEN variance(input_floats) ELSE QZero>>

ProbabilityDistribution(probs, float_dist, expected_float, float_variance) ==
    [raised |-> NoRaise, outcome_probabilities |-> probs, float_distribution |-> float_dist,
     expected_float |-> expected_float, float_variance |-> float_variance]

\* the dict comprehension {skin['market_hash_name']: base_probability for skin in ...}
OutcomeProbabilityDict(outcome_collection, base_probability) ==
    DictFrom([i \in DOMAIN outcome_collection |->
                 <<outcome_collection[i].market_hash_name, base_probability>>])

\* the outcome_probabilities of the distribution returned for a pool
OutcomeProbabilities(outcome_collection) ==
    LET num_outcomes == Len(outcome_collection)
    IN  IF num_outcomes = 0 THEN EmptyDict
        ELSE OutcomeProbabilityDict(outcome_collection, Q(1, num_outcomes))

\* a calculator that keeps the result of the call before: when one is at hand
\* it recomputes the outcome probabilities only
calculate_outcome_probabilities_stale(input_skins, outcome_collection) ==
    IF op = "calculate_outcome_probabilities" \/ Len(outcome_collection) = 0
    THEN ProbabilityDistribution(OutcomeProbabilities(outcome_collection),
                                 EmptyDict, QZero, QZero)
    ELSE LET float_dist == _calculate_float_distribution(input_skins, outcome_collection)
         IN  IF float_dist.raised # NoRaise THEN float_dist
             ELSE LET stats == _calculate_float_statistics(input_skins)
                  IN  ProbabilityDistribution(OutcomeProbabilities(outcome_collection),
                                              float_dist.value, stats[1], stats[2])

calculate_outcome_probabilities(input_skins, outcome_collection) ==
    LET num_outcomes == Len(outcome_collection)
    IN  IF num_outcomes = 0
        THEN ProbabilityDistribution(EmptyDict, EmptyDict, QZero, QZero)
        ELSE LET outcome_probabilities == OutcomeProbabilities(outcome_collection)
                 float_dist == _calculate_float_distribution(input_skins, outcome_collection)
             IN  IF float_dist.raised # NoRaise THEN float_dist
                 ELSE LET stats == _calculate_float_statistics(input_skins)
                      IN  ProbabilityDistribution(outcome_probabilities, float_dist.value,
                                                  stats[1], stats[2])

----------------------------------------------------------------------------
(* probability_calc.py: expected value with uncertainty, risk metrics *)

\* the non-strict comparison, which counts an outcome priced exactly at cost
ProfitCountsNonStrict(price, input_cost) == price >= input_cost

\* the comparison that selects the outcomes counted by the profit probability
ProfitCounts(price, input_cost) == price > input_cost

\* a profit probability that takes an outcome without a price for profitable
_calculate_profit_probability_unpriced(outcome_probabilities, outcome_prices, input_cost) ==
    LET counted ==
            SelectSeq(outcome_probabilities,
                      LAMBDA kv : \/ ~DictHas(outcome_prices, kv[1])
                                  \/ ProfitCounts(DictGet(outcome_prices, kv[1], 0), input_cost))
    IN  QSum(DictValues(counted))

_calculate_profit_probability(outcome_probabilities, outcome_prices, input_cost) ==
    LET counted ==
            SelectSeq(outcome_probabilities,
                      LAMBDA kv : ProfitCounts(DictGet(outcome_prices, kv[1], 0), input_cost))
    IN  QSum(DictValues(counted))

\* math.sqrt
sqrt(x) == SqrtQ(x, MathSqrtRes)

ZScore95 == Q(196, 100)
\* the z-score of a 90% interval, which the code has no entry for
ZScore90 == Q(1645, 1000)
ZScore99 == Q(2576, 1000)

calculate_expected_value_with_uncertainty(outcome_probabilities, outcome_prices, input_cost, confidence_level) ==
    LET PriceOf(i) == DictGet(outcome_prices, outcome_probabilities[i][1], 0)
        expected_output_value ==
            QSum([i \in DOMAIN outcome_probabilities |->
                     QMul(outcome_probabilities[i][2], QInt(PriceOf(i)))])
        expected_profit == QSub(expected_output_value, QInt(input_cost))
        expected_value_squared ==
            QSum([i \in DOMAIN outcome_probabilities |->
                     QMul(outcome_probabilities[i][2], QInt(PriceOf(i) * PriceOf(i)))])
        var == QSub(expected_value_squared,
                    QMul(expected_output_value, expected_output_value))
        std_dev == IF QLt(QZero, var) THEN sqrt(var) ELSE QZero
        z_score == IF confidence_level = Q(95, 100) THEN ZScore95 ELSE ZScore99
        margin_of_error == QMul(z_score, std_dev)
    IN  [raised |-> NoRaise,
         expected_value |-> expected_profit,
         lower_bound |-> QSub(expected_profit, margin_of_error),
         upper_bound |-> QAdd(expected_profit, margin_of_error),
         profit_probability |->
             _calculate_profit_probability(outcome_probabilities, outcome_prices,
                                           input_cost),
         standard_deviation |-> std_dev]

\* a float that may be float('inf')
Finite(x) == [inf |-> FALSE, val |-> x]
Infinity == [inf |-> TRUE, val |-> QZero]

\* expected_return / risk if risk > 0 else float('inf')
SharpeRatio(expected_return, risk) ==
    IF QLt(QZero, risk) THEN Finite(QDiv(expected_return, risk)) ELSE Infinity

calculate_risk_metrics(outcome_probabilities, outcome_prices, input_cost) ==
    LET keys == DictKeys(outcome_probabilities)
        prices == [i \in DOMAIN keys |-> DictGet(outcome_prices, keys[i], 0)]
        probabilities == DictValues(outcome_probabilities)
        min_outcome_value == IF prices # <<>> THEN QMinSeq([i \in DOMAIN prices |-> QInt(prices[i])])[1] ELSE 0
        max_loss == input_cost - min_outcome_value
        max_outcome_value == IF prices # <<>> THEN QMaxSeq([i \in DOMAIN prices |-> QInt(prices[i])])[1] ELSE 0
        max_gain == max_outcome_value - input_cost
        expected_output ==
            QSum([i \in DOMAIN prices |-> QMul(probabilities[i], QInt(prices[i]))])
        expected_return ==
            IF input_cost > 0
            THEN QDiv(QSub(expected_output, QInt(input_cost)), QInt(input_cost))
            ELSE QZero
        Dev(i) == QSub(Q(prices[i] - input_cost, input_cost), expected_return)
        var == IF input_cost > 0
               THEN QSum([i \in DOMAIN prices |->
                             QMul(probabilities[i], QMul(Dev(i), Dev(i)))])
               ELSE QZero
        risk == sqrt(var)
    IN  [raised |-> NoRaise,
         max_loss |-> max_loss,
         max_gain |-> max_gain,
         expected_return_percent |-> QMul(expected_return, QInt(100)),
         risk_percent |-> QMul(risk, QInt(100)),
         sharpe_ratio |-> SharpeRatio(expected_return, risk),
         loss_probability |->
             QSub(QOne, _calculate_profit_probability(outcome_probabilities,
                                                     outcome_prices, input_cost))]

----------------------------------------------------------------------------
(* probability_calc.py: calculate_rarity_upgrade_probability *)

rarity_hierarchy ==
    <<"Consumer Grade", "Industrial Grade", "Mil-Spec Grade",
      "Restricted", "Classified", "Covert">>

\* list.index: the first position of x, or 0 when list.index raises ValueError
IndexOf(s, x) ==
    IF x \in Range(s) THEN CHOOSE i \in DOMAIN s : s[i] = x /\ \A j \in 1..(i - 1) : s[j] # x
    ELSE 0

\* a try block that reads the hierarchy at the index of the input itself
UpgradeTryBodySameIndex(input_rarity) ==
    LET current_index == IndexOf(rarity_hierarchy, input_rarity)
    IN  IF current_index = 0
        THEN [raised |-> "ValueError", msg |-> "not in list"]
        ELSE IF current_index < Len(rarity_hierarchy)
        THEN [raised |-> NoRaise, value |-> rarity_hierarchy[current_index]]
        ELSE [raised |-> "ValueError", msg |-> "Cannot upgrade beyond " \o input_rarity]

\* the body of the try block
UpgradeTryBody(input_rarity) ==
    LET current_index == IndexOf(rarity_hierarchy, input_rarity)
    IN  IF current_index = 0
        THEN [raised |-> "ValueError", msg |-> "not in list"]
        ELSE IF current_index < Len(rarity_hierarchy)
        THEN [raised |-> NoRaise, value |-> rarity_hierarchy[current_index + 1]]
        ELSE [raised |-> "ValueError", msg |-> "Cannot upgrade beyond " \o input_rarity]

\* the except ValueError clause: it catches every ValueError of the try
\* body, the one the body raises for the top tier included
UpgradeExcept(body, input_rarity) ==
    IF body.raised = "ValueError"
    THEN [raised |-> "ValueError", msg |-> "Unknown rarity: " \o input_rarity]
    ELSE body

calculate_rarity_upgrade_probability(input_rarity) ==
    UpgradeExcept(UpgradeTryBody(input_rarity), input_rarity)

\* rarity names the callers pass
RarityInputs == Range(rarity_hierarchy) \cup {"Unknown", "Contraband", ""}

----------------------------------------------------------------------------
(* collections_database.py: the collections and CollectionsDatabase.     *)
(* A collection is a dict with the keys collection_name, active,         *)
(* tradeable and weapons; weapons maps a rarity name to its list of      *)
(* weapons, in the order the source lists them.                          *)

Weapon(weapon, skin, rarity_tier) ==
    [weapon |-> weapon, skin |-> skin,
     full_name |-> weapon \o " | " \o skin, rarity_tier |-> rarity_tier]

DUST2_COLLECTION ==
    <<<<"collection_name", "The Dust 2 Collection">>,
      <<"active", TRUE>>,
      <<"tradeable", TRUE>>,
      <<"weapons", <<
        <<"Consumer Grade",
          <<Weapon("G3SG1", "Desert Storm", 0),
            Weapon("MP9", "Sand Dashed", 0),
            Weapon("Nova", "Predator", 0),
            Weapon("P250", "Sand Dune", 0),
            Weapon("P90", "Sand Spray", 0),
            Weapon("SCAR-20", "Sand Mesh", 0)>> >>,
        <<"Industrial Grade",
          <<Weapon("Five-SeveN", "Orange Peel", 1),
            Weapon("MAC-10", "Palm", 1),
            Weapon("Sawed-Off", "Snake Camo", 1),
            Weapon("Tec-9", "VariCamo", 1)>> >>,
        <<"Mil-Spec Grade",
          <<Weapon("PP-Bizon", "Brass", 2),
            Weapon("SG 553", "Damascus Steel", 2)>> >>,
        <<"Restricted",
          <<Weapon("AK-47", "Safari Mesh", 3),
            Weapon("M4A1-S", "VariCamo", 3),
            Weapon("P2000", "Amber Fade", 3),
            Weapon("R8 Revolver", "Amber Fade", 3)>> >> >> >> >>

MIRAGE_COLLECTION ==
    <<<<"collection_name", "Mirage Collection">>,
      <<"active", TRUE>>,
      <<"tradeable", TRUE>>,
      <<"weapons", <<
        <<"Industrial Grade",
          <<Weapon("MP9", "Hot Rod", 1),
            Weapon("MAG-7", "Sand Dune", 1)>> >>,
        <<"Mil-Spec Grade",
          <<Weapon("P250", "Sand Dune", 2),
            Weapon("UMP-45", "Fallout Warning", 2)>> >>,
        <<"Restricted",
          <<Weapon("AK-47", "Emerald Pinstripe", 3),
            Weapon("M4A1-S", "VariCamo", 3)>> >> >> >> >>

ITALY_COLLECTION ==
    <<<<"collection_name", "Italy Collection">>,
      <<"active", FALSE>>,
      <<"tradeable", TRUE>>,
      <<"weapons", <<
        <<"Industrial Grade",
          <<Weapon("Tec-9", "Groundwater", 1)>> >>,
        <<"Mil-Spec Grade",
          <<Weapon("Five-SeveN", "Orange Peel", 2)>> >>,
        <<"Restricted",
          <<Weapon("Galil AR", "Orange DDPAT", 3)>> >> >> >> >>

RARITY_HIERARCHY ==
    <<"Consumer Grade", "Industrial Grade", "Mil-Spec Grade",
      "Restricted", "Classified", "Covert">>

\* CollectionsDatabase.__init__: self.collections
collections ==
    <<<<"Dust 2 Collection", DUST2_COLLECTION>>,
      <<"Mirage Collection", MIRAGE_COLLECTION>>,
      <<"Italy Collection", ITALY_COLLECTION>> >>

get_collection(collection_name) ==
    DictGet(collections, collection_name, <<>>)

get_weapons_by_rarity(collection_name, rarity) ==
    LET collection == get_collection(collection_name)
    IN  IF collection = <<>>
        THEN <<>>
        ELSE DictGet(DictGet(collection, "weapons", <<>>), rarity, <<>>)

\* an outcome lookup that reads the hierarchy at the input tier itself
get_tradeup_outcomes_same_tier(collection_name, input_rarity) ==
    LET input_tier == IndexOf(RARITY_HIERARCHY, input_rarity)
    IN  IF input_tier = 0
        THEN <<>>
        ELSE IF input_tier >= Len(RARITY_HIERARCHY)
        THEN <<>>
        ELSE get_weapons_by_rarity(collection_name, RARITY_HIERARCHY[input_tier])

\* input_tier is the 1-based position, 0 when list.index raises ValueError
\* (caught: the empty list); Python's input_tier + 1 is position + 1 here
get_tradeup_outcomes(collection_name, input_rarity) ==
    LET input_tier == IndexOf(RARITY_HIERARCHY, input_rarity)
    IN  IF input_tier = 0
        THEN <<>>
        ELSE IF input_tier >= Len(RARITY_HIERARCHY)
        THEN <<>>
        ELSE get_weapons_by_rarity(collection_name, RARITY_HIERARCHY[input_tier + 1])

\* collection names the callers pass: the database's keys, a collection's
\* own collection_name field, and names of no collection
CollectionNames ==
    Range(DictKeys(collections))
        \cup {"The Dust 2 Collection", "Cache Collection", ""}

----------------------------------------------------------------------------
(* Actions: one per public operation.  A call is made when no call is    *)
(* in progress (op = "idle"); op, args and ret then hold the call and its *)
(* outcome until the caller drops them (Return).                          *)

NoAPI == [constructed |-> FALSE]

\* seconds in the limiter's window
Minute == 60

\* CSFloatAPI.__init__: the fields the rate limiter uses
CSFloatAPI(max_requests_per_minute, now) ==
    [constructed |-> TRUE,
     max_requests_per_minute |-> max_requests_per_minute,
     last_request_time |-> 0,
     request_count |-> 0,
     minute_start_time |-> now]

\* "Reset counter if minute has passed"
MinuteHasPassed(self, current_time) == current_time - self.minute_start_time >= Minute

ResetIfMinutePassed(self, current_time) ==
    IF MinuteHasPassed(self, current_time)
    THEN [self EXCEPT !.request_count = 0, !.minute_start_time = current_time]
    ELSE self

\* "Check if we're hitting rate limit"
LimitReached(self) == self.request_count >= self.max_requests_per_minute

sleep_time(self, current_time) == Minute - (current_time - self.minute_start_time) + 1

\* a wake-up that starts a new minute without clearing the counter
AfterSleepKeepsCount(self, wake_time) == [self EXCEPT !.minute_start_time = wake_time]

\* the fields after time.sleep has returned at wake_time
AfterSleep(self, wake_time) ==
    [self EXCEPT !.request_count = 0, !.minute_start_time = wake_time]

\* CSFloatAPI._rate_limit, called at current_time; when it sleeps, time.time()
\* reads wake_time afterwards
_rate_limit(self, current_time, wake_time) ==
    LET reset == ResetIfMinutePassed(self, current_time)
        slept == IF LimitReached(reset) THEN AfterSleep(reset, wake_time) ELSE reset
    IN  [slept EXCEPT !.request_count = slept.request_count + 1]

\* CSFloatAPI.convert_to_skin_data: the item fields are read from
\* listing['item'], the price from the listing itself
convert_to_skin_data(csfloat_listing) ==
    LET item_data == DictGet(csfloat_listing, "item", EmptyDict)
    IN  SkinData(DictGet(item_data, "market_hash_name", ""),
                 DictGet(item_data, "collection", ""),
                 DictGet(item_data, "rarity", ""),
                 DictGet(item_data, "float_value", QZero),
                 DictGet(csfloat_listing, "price", 0),
                 DictGet(item_data, "wear_name", ""),
                 DictGet(item_data, "is_stattrak", FALSE),
                 DictGet(item_data, "is_souvenir", FALSE))

\* the name get_outcome_skins reads to tell skins apart: a key of the listing
\* itself
skin_name(listing) == DictGet(listing, "market_hash_name", "")

\* the loop of get_outcome_skins over the first n listings
RECURSIVE OutcomeSkinsLoop(_, _)
OutcomeSkinsLoop(listings, n) ==
    IF n = 0 THEN [outcome_skins |-> <<>>, seen_skins |-> {}]
    ELSE LET before == OutcomeSkinsLoop(listings, n - 1)
             listing == listings[n]
         IN  IF skin_name(listing) \notin before.seen_skins
             THEN [outcome_skins |-> Append(before.outcome_skins,
                                            convert_to_skin_data(listing)),
                   seen_skins |-> before.seen_skins \cup {skin_name(listing)}]
             ELSE before

\* CSFloatAPI.get_outcome_skins, given the listings get_collection_skins fetched
get_outcome_skins(listings) == OutcomeSkinsLoop(listings, Len(listings)).outcome_skins

Idle == op = "idle"

Init ==
    /\ op = "idle"
    /\ args = [none |-> TRUE]
    /\ ret = [raised |-> NoRaise]
    /\ api = NoAPI
    /\ clock = 0
    /\ returned_at = <<>>
    /\ returns_since_start = 0

\* the caller is done with the result of the last call
Return ==
    /\ ~Idle
    /\ op' = "idle"
    /\ args' = [none |-> TRUE]
    /\ ret' = [raised |-> NoRaise]
    /\ UNCHANGED apiVars

NewTradeupInput ==
    /\ Idle
    /\ \E n \in 0..MaxLen : \E items \in ItemLists(n) :
        /\ op' = "TradeupInput"
        /\ args' = [input_skins |-> items]
        /\ ret' = TradeupInput(items)
    /\ UNCHANGED apiVars

Validate ==
    /\ Idle
    /\ \E n \in 0..MaxLen : \E items \in ItemLists(n) :
        /\ op' = "validate_tradeup_inputs"
        /\ args' = [input_skins |-> items]
        /\ ret' = [raised |-> NoRaise, value |-> validate_tradeup_inputs(items)]
    /\ UNCHANGED apiVars

RarityUpgrade ==
    /\ Idle
    /\ \E r \in RarityInputs :
        /\ op' = "calculate_rarity_upgrade_probability"
        /\ args' = [input_rarity |-> r]
        /\ ret' = calculate_rarity_upgrade_probability(r)
    /\ UNCHANGED apiVars

GetWeaponsByRarity ==
    /\ Idle
    /\ \E c \in CollectionNames, r \in RarityInputs :
        /\ op' = "get_weapons_by_rarity"
        /\ args' = [collection_name |-> c, rarity |-> r]
        /\ ret' = [raised |-> NoRaise, value |-> get_weapons_by_rarity(c, r)]
    /\ UNCHANGED apiVars

GetTradeupOutcomes ==
    /\ Idle
    /\ \E c \in CollectionNames, r \in RarityInputs :
        /\ op' = "get_tradeup_outcomes"
        /\ args' = [collection_name |-> c, input_rarity |-> r]
        /\ ret' = [raised |-> NoRaise, value |-> get_tradeup_outcomes(c, r)]
    /\ UNCHANGED apiVars

FloatInputs ==
    {Q(k, FloatGrid) : k \in 0..FloatGrid}
        \cup {WearTier[i].min_float : i \in DOMAIN WearTier}
        \cup {WearTier[i].max_float : i \in DOMAIN WearTier}

FromFloat ==
    /\ Idle
    /\ \E f \in FloatInputs :
        /\ op' = "from_float"
        /\ args' = [float_value |-> f]
        /\ ret' = [raised |-> NoRaise, value |-> from_float(f)]
    /\ UNCHANGED apiVars

\* calculate_expected_value on a TradeupInput whose construction succeeded
CalcExpectedValue ==
    /\ Idle
    /\ \E items \in ItemLists(TradeupSize) : \E pool \in Pools :
        LET tradeup_input == TradeupInput(items)
        IN  /\ tradeup_input.raised = NoRaise
            /\ op' = "calculate_expected_value"
            /\ args' = [tradeup_input |-> tradeup_input,
                        outcome_collection_skins |-> pool]
            /\ ret' = calculate_expected_value(tradeup_input, pool)
    /\ UNCHANGED apiVars

\* the input lists handed to the ProbabilityCalculator: short ones and full contracts
FloatInputLens == (0..MaxFloatInputs) \cup {TradeupSize}

CalcFloatStatistics ==
    /\ Idle
    /\ \E n \in FloatInputLens : \E items \in ItemLists(n) :
        /\ op' = "_calculate_float_statistics"
        /\ args' = [input_skins |-> items]
        /\ ret' = [raised |-> NoRaise, value |-> _calculate_float_statistics(items)]
    /\ UNCHANGED apiVars

CalcOutcomeProbabilities ==
    /\ Idle
    /\ \E n \in FloatInputLens : \E items \in ItemLists(n) :
       \E pool \in PoolsUpTo(MaxDistPoolLen) :
        /\ op' = "calculate_outcome_probabilities"
        /\ args' = [input_skins |-> items, outcome_collection |-> pool]
        /\ ret' = calculate_outcome_probabilities(items, pool)
    /\ UNCHANGED apiVars

\* the caller repeats the call it has just made, with the same arguments, and
\* holds both results
CalcOutcomeProbabilitiesAgain ==
    /\ op = "calculate_outcome_probabilities"
    /\ op' = "calculate_outcome_probabilities_again"
    /\ args' = args
    /\ ret' = [raised |-> NoRaise,
               first |-> ret,
               second |-> calculate_outcome_probabilities(args.input_skins,
                                                          args.outcome_collection)]
    /\ UNCHANGED apiVars

\* The distribution a caller passes on is the outcome_probabilities of the
\* ProbabilityDistribution computed for some pool; the price dict gives the
\* market price of some of the outcome names (a missing name is read as 0).
PoolDistribution(pool) == OutcomeProbabilities(pool)

PriceDicts ==
    {SelectSeq([i \in DOMAIN s |-> <<s[i], OutcomePrice(s[i])>>], LAMBDA kv : kv[1] \in known) :
        s \in {<<"A", "B", "C">>}, known \in SUBSET OutcomeNames}

InputCosts == {0, 100, 150, 300}

ConfidenceLevels == {Q(95, 100), Q(99, 100), Q(90, 100)}

CalcExpectedValueWithUncertainty ==
    /\ Idle
    /\ \E pool \in Pools : \E prices \in PriceDicts : \E cost \in InputCosts :
       \E level \in ConfidenceLevels :
        /\ op' = "calculate_expected_value_with_uncertainty"
        /\ args' = [pool |-> pool,
                    outcome_probabilities |-> PoolDistribution(pool),
                    outcome_prices |-> prices,
                    input_cost |-> cost,
                    confidence_level |-> level]
        /\ ret' = calculate_expected_value_with_uncertainty(
                      PoolDistribution(pool), prices, cost, level)
    /\ UNCHANGED apiVars

CalcRiskMetrics ==
    /\ Idle
    /\ \E pool \in Pools : \E prices \in PriceDicts : \E cost \in InputCosts :
        /\ op' = "calculate_risk_metrics"
        /\ args' = [pool |-> pool,
                    outcome_probabilities |-> PoolDistribution(pool),
                    outcome_prices |-> prices,
                    input_cost |-> cost]
        /\ ret' = calculate_risk_metrics(PoolDistribution(pool), prices, cost)
    /\ UNCHANGED apiVars

\* time passes between calls
TickSteps == {20, 30}

Tick ==
    /\ \E d \in TickSteps :
        /\ clock + d <= MaxClock
        /\ clock' = clock + d
    /\ UNCHANGED <<api, returned_at, returns_since_start>>
    /\ UNCHANGED calcVars

NewCSFloatAPI ==
    /\ api = NoAPI
    /\ \E m \in 1..MaxRequests : api' = CSFloatAPI(m, clock)
    /\ returned_at' = <<>>
    /\ returns_since_start' = 0
    /\ UNCHANGED clock
    /\ UNCHANGED calcVars

\* time.sleep returns after the requested time, or a second later
Oversleep == {0, 1}

\* the return times of the last minute, the new one included
LastMinute(times, now) == SelectSeq(Append(times, now), LAMBDA t : now - t < Minute)

\* one call of _rate_limit, from entry to return; a call that sleeps returns
\* at the time it wakes
RateLimitCall ==
    /\ api # NoAPI
    /\ LET current_time == clock
           minute_passed == MinuteHasPassed(api, current_time)
           reset == ResetIfMinutePassed(api, current_time)
           sleeps == LimitReached(reset)
       IN  \E extra \in Oversleep :
             LET wake_time == IF sleeps
                              THEN current_time + sleep_time(reset, current_time) + extra
                              ELSE current_time
             IN  /\ wake_time <= MaxClock + Minute + 2
                 /\ api' = _rate_limit(api, current_time, wake_time)
                 /\ clock' = wake_time
                 /\ returned_at' = LastMinute(returned_at, wake_time)
                 /\ returns_since_start' =
                        IF minute_passed \/ sleeps THEN 1 ELSE returns_since_start + 1

\* a request method, as far as the limiter is concerned
RateLimit ==
    /\ RateLimitCall
    /\ UNCHANGED calcVars

\* a listing in the format of the CSFloat API: price at the listing level,
\* the skin under 'item'
Listing(id, price, name, fl) ==
    << <<"id", id>>, <<"price", price>>,
       <<"item", << <<"market_hash_name", name>>, <<"collection", "Dust 2">>,
                    <<"rarity", 5>>, <<"float_value", fl>>,
                    <<"wear_name", "Field-Tested">>, <<"is_stattrak", FALSE>>,
                    <<"is_souvenir", FALSE>> >> >> >>

\* a listing that also carries the name at the listing level
FlatListing(id, price, name, fl) == Append(Listing(id, price, name, fl), <<"market_hash_name", name>>)

ListingCatalog ==
    { Listing("l1", 100, "A", Q(20, 100)), Listing("l2", 120, "A", Q(30, 100)),
      Listing("l3", 300, "B", Q(20, 100)), FlatListing("l4", 300, "B", Q(25, 100)),
      FlatListing("l5", 100, "C", Q(20, 100)) }

\* the responses of get_collection_skins
Responses == UNION {[1..n -> ListingCatalog] : n \in 0..MaxListings}

\* get_outcome_skins: the request passes the limiter, then the listings of
\* the response are converted
GetOutcomeSkins ==
    /\ Idle
    /\ RateLimitCall
    /\ \E listings \in Responses :
        /\ op' = "get_outcome_skins"
        /\ args' = [listings |-> listings]
        /\ ret' = [raised |-> NoRaise, value |-> get_outcome_skins(listings)]

Next ==
    \/ GetWeaponsByRarity
    \/ GetTradeupOutcomes
    \/ NewTradeupInput
    \/ CalcExpectedValueWithUncertainty
    \/ CalcRiskMetrics
    \/ CalcOutcomeProbabilities
    \/ CalcOutcomeProbabilitiesAgain
    \/ CalcExpectedValue
    \/ Validate
    \/ RarityUpgrade
    \/ FromFloat
    \/ CalcFloatStatistics
    \/ Return
    \/ NewCSFloatAPI
    \/ Tick
    \/ RateLimit
    \/ GetOutcomeSkins

Spec == Init /\ [][Next]_vars

\* the two calculators without the market client
NextCalc ==
    \/ NewTradeupInput
    \/ Validate
    \/ RarityUpgrade
    \/ FromFloat
    \/ CalcFloatStatistics
    \/ CalcExpectedValue
    \/ CalcOutcomeProbabilities
    \/ CalcOutcomeProbabilitiesAgain
    \/ CalcExpectedValueWithUncertainty
    \/ CalcRiskMetrics
    \/ Return
SpecCalc == Init /\ [][NextCalc]_vars

\* the operations of each component on their own
NextRate == NewCSFloatAPI \/ Tick \/ RateLimit
SpecRate == Init /\ [][NextRate]_vars

NextOutcome == NewCSFloatAPI \/ GetOutcomeSkins \/ Return
SpecOutcome == Init /\ [][NextOutcome]_vars

NextContract == NewTradeupInput \/ Validate \/ RarityUpgrade \/ Return
SpecContract == Init /\ [][NextContract]_vars

NextWear == FromFloat \/ Return
SpecWear == Init /\ [][NextWear]_vars

NextStats == CalcFloatStatistics \/ Return
SpecStats == Init /\ [][NextStats]_vars

NextEV == CalcExpectedValue \/ Return
SpecEV == Init /\ [][NextEV]_vars

NextProb == CalcOutcomeProbabilities \/ CalcOutcomeProbabilitiesAgain \/ Return
SpecProb == Init /\ [][NextProb]_vars

\* the collections database and the rarity upgrade it is compared with
NextCollections == GetWeaponsByRarity \/ GetTradeupOutcomes \/ RarityUpgrade \/ Return
SpecCollections == Init /\ [][NextCollections]_vars

NextRisk == CalcExpectedValueWithUncertainty \/ CalcRiskMetrics \/ Return
SpecRisk == Init /\ [][NextRisk]_vars
----------------------------------------------------------------------------
(* Properties *)

RECURSIVE SumPrices(_, _)
\* the sum of the prices of the first n items of s
SumPrices(s, n) == IF n = 0 THEN 0 ELSE s[n].price_cents + SumPrices(s, n - 1)

PricesOf(pool) == [i \in DOMAIN pool |-> pool[i].price_cents]

\* C1: calculate_expected_value returns expected_output_value_cents = the sum
\* over the pool of probability_i * price_i and expected_profit_cents = that
\* value minus the sum of the ten input prices; for a pool priced 100 and 300
\* and input cost 150 the value is 200, the profit 50 and the margin 33.33%.
C1_ExpectedValueAndProfit ==
    op = "calculate_expected_value" =>
        LET pool == args.outcome_collection_skins
            items == args.tradeup_input.input_skins
            cost == SumPrices(items, Len(items))
            outcomes == ret.possible_outcomes
            WeightedPrice(i) == QMul(outcomes[i].probability, QInt(pool[i].price_cents))
            ev == QSum([i \in DOMAIN pool |-> WeightedPrice(i)])
        IN  /\ Len(items) = 10
            /\ Len(outcomes) = Len(pool)
            /\ ret.total_input_cost_cents = cost
            /\ ret.expected_output_value_cents = ev
            /\ ret.expected_profit_cents = QSub(ev, QInt(cost))
            /\ (PricesOf(pool) = <<100, 300>> /\ cost = 150) =>
                   /\ ret.expected_output_value_cents = QInt(200)
                   /\ ret.expected_profit_cents = QInt(50)
                   /\ ret.profit_margin_percent = Q(100, 3)

C1_Witness ==
    /\ op = "calculate_expected_value"
    /\ PricesOf(args.outcome_collection_skins) = <<100, 300>>
    /\ ret.total_input_cost_cents = 150
    /\ ret.expected_profit_cents = QInt(50)

\* C2: for every nonempty outcome pool, names not assumed distinct, the
\* outcome_probabilities of the returned ProbabilityDistribution sum to 1.
C2_OutcomeProbabilitiesSumToOne ==
    (/\ op = "calculate_outcome_probabilities"
     /\ args.outcome_collection # <<>>
     /\ ret.raised = NoRaise)
        => QSum(DictValues(ret.outcome_probabilities)) = QOne

TierNames == {"FACTORY_NEW", "MINIMAL_WEAR", "FIELD_TESTED", "WELL_WORN", "BATTLE_SCARRED"}

InUnitInterval(x) == x[1] >= 0 /\ x[1] <= x[2]

\* C3: for input floats in [0,1], whenever some wear tier receives nonzero
\* weight, float_distribution has all five tiers as keys, every value in
\* [0,1], and the values sum to 1.
C3_FloatDistributionNormalized ==
    (/\ op = "calculate_outcome_probabilities"
     /\ args.outcome_collection # <<>>
     /\ ret.raised = NoRaise
     /\ \E i \in DOMAIN ret.float_distribution : ret.float_distribution[i][2] # QZero)
        => LET dist == ret.float_distribution
           IN  /\ Len(dist) = 5
               /\ Range(DictKeys(dist)) = TierNames
               /\ \A i \in DOMAIN dist : InUnitInterval(dist[i][2])
               /\ QSum(DictValues(dist)) = QOne

\* two tiers share the mass: the range of the input floats straddles a boundary
C3_Witness ==
    /\ op = "calculate_outcome_probabilities"
    /\ ret.raised = NoRaise
    /\ args.outcome_collection # <<>>
    /\ Len(args.input_skins) = 10
    /\ \E i, j \in DOMAIN ret.float_distribution :
          /\ i # j
          /\ ret.float_distribution[i][2] # QZero
          /\ ret.float_distribution[j][2] # QZero

\* the five checks, stated on the item list itself
NumWhere(items, P(_)) == Cardinality({i \in DOMAIN items : P(items[i])})
CountFails(items) == Len(items) # 10
RarityFails(items) == \E i, j \in DOMAIN items : items[i].rarity # items[j].rarity
StattrakFails(items) == NumWhere(items, IsStattrak) \notin {0, 10}
SouvenirFails(items) == NumWhere(items, IsSouvenir) \notin {0, 10}
MixFails(items) ==
    /\ \E i \in DOMAIN items : items[i].is_stattrak
    /\ \E i \in DOMAIN items : items[i].is_souvenir

Reports(errors, text) == \E i \in DOMAIN errors : errors[i] = text
RarityReported(errors, items) ==
    Reports(errors, "All input skins must be same rarity, found: "
                        \o ToString({items[i].rarity : i \in DOMAIN items}))
CountReported(errors, items) ==
    Reports(errors, "Tradeup requires exactly 10 skins, got " \o ToString(Len(items)))
StattrakReported(errors) == Reports(errors, "Either all or no input skins can be StatTrak")
SouvenirReported(errors) == Reports(errors, "Either all or no input skins can be Souvenir")
MixReported(errors) == Reports(errors, "Cannot mix StatTrak and Souvenir skins")

\* C4 as stated: the five checks are evaluated independently, so the returned
\* list holds a violation for each check that fails, a wrong item count
\* together with mixed rarities or inconsistent flags included.
C4_AllFailingChecksReported ==
    op = "validate_tradeup_inputs" =>
        LET items == args.input_skins
            errors == ret.value
        IN  /\ CountFails(items) => CountReported(errors, items)
            /\ RarityFails(items) => RarityReported(errors, items)
            /\ StattrakFails(items) => StattrakReported(errors)
            /\ SouvenirFails(items) => SouvenirReported(errors)
            /\ MixFails(items) => MixReported(errors)

\* C4 amended: a wrong item count is reported alone; on a list of exactly ten
\* items the four other checks are evaluated independently and the returned
\* list holds a violation for each of them that fails.
C4_ChecksAfterCount ==
    op = "validate_tradeup_inputs" =>
        LET items == args.input_skins
            errors == ret.value
        IN  IF CountFails(items)
            THEN errors = <<"Tradeup requires exactly 10 skins, got " \o ToString(Len(items))>>
            ELSE /\ RarityFails(items) => RarityReported(errors, items)
                 /\ StattrakFails(items) => StattrakReported(errors)
                 /\ SouvenirFails(items) => SouvenirReported(errors)
                 /\ MixFails(items) => MixReported(errors)

\* ten items failing all four checks at once, all four reported
C4_Witness ==
    /\ op = "validate_tradeup_inputs"
    /\ Len(args.input_skins) = 10
    /\ RarityFails(args.input_skins)
    /\ StattrakFails(args.input_skins)
    /\ MixFails(args.input_skins)
    /\ Len(ret.value) = 4

\* a valid contract, stated on the item list itself
ValidContract(items) ==
    /\ Len(items) = 10
    /\ \A i, j \in DOMAIN items : items[i].rarity = items[j].rarity
    /\ NumWhere(items, IsStattrak) \in {0, 10}
    /\ NumWhere(items, IsSouvenir) \in {0, 10}
    /\ ~(NumWhere(items, IsStattrak) > 0 /\ NumWhere(items, IsSouvenir) > 0)

\* C5: validate_tradeup_inputs returns the empty list if and only if the list
\* is a valid contract: ten items, one rarity, stattrak count 0 or 10,
\* souvenir count 0 or 10, and not both variants present.
C5_EmptyIffValid ==
    op = "validate_tradeup_inputs" =>
        (ret.value = <<>> <=> ValidContract(args.input_skins))

\* ten Restricted items without flags validate to the empty list
C5_Witness ==
    /\ op = "validate_tradeup_inputs"
    /\ Len(args.input_skins) = 10
    /\ \A i \in DOMAIN args.input_skins :
          /\ args.input_skins[i].rarity = "Restricted"
          /\ ~args.input_skins[i].is_stattrak
          /\ ~args.input_skins[i].is_souvenir
    /\ ret.value = <<>>

SixRarities ==
    <<"Consumer Grade", "Industrial Grade", "Mil-Spec Grade",
      "Restricted", "Classified", "Covert">>

\* C6: upgrade of the top tier "Covert" fails with "Cannot upgrade beyond ...",
\* upgrade of a name outside the hierarchy fails with "Unknown rarity ...",
\* so that the two failures can be told apart.
C6_DistinctFailureSignals ==
    op = "calculate_rarity_upgrade_probability" =>
        /\ args.input_rarity = "Covert" =>
               /\ ret.raised = "ValueError"
               /\ ret.msg = "Cannot upgrade beyond Covert"
        /\ args.input_rarity \notin Range(SixRarities) =>
               /\ ret.raised = "ValueError"
               /\ ret.msg = "Unknown rarity: " \o args.input_rarity

\* C7: for every rarity of the six-name hierarchy other than the last, upgrade
\* returns the name that follows it; upgrade("Classified") = "Covert".
C7_UpgradeReturnsNext ==
    op = "calculate_rarity_upgrade_probability" =>
        \A i \in 1..5 :
            args.input_rarity = SixRarities[i] =>
                /\ ret.raised = NoRaise
                /\ ret.value = SixRarities[i + 1]

C7_Witness ==
    /\ op = "calculate_rarity_upgrade_probability"
    /\ args.input_rarity = "Classified"
    /\ ret.raised = NoRaise
    /\ ret.value = "Covert"

\* the pool items priced at or above the cost, and their number
AtOrAboveCost(pool, cost) == {i \in DOMAIN pool : pool[i].price_cents >= cost}

MassWhere(probs, prices, P(_)) ==
    QSum([i \in DOMAIN probs |->
             IF P(DictGet(prices, probs[i][1], 0)) THEN probs[i][2] ELSE QZero])

\* the entries of a distribution as the outcome list of the contract-level
\* calculation
AsOutcomes(probs, prices) ==
    [i \in DOMAIN probs |->
        TradeupOutcome(SkinData(probs[i][1], "", "", QZero,
                                DictGet(prices, probs[i][1], 0), "", FALSE, FALSE),
                       probs[i][2], <<QZero, QZero>>)]

NoPriceSpread(pool, prices) ==
    \A i, j \in DOMAIN pool :
        DictGet(prices, pool[i].market_hash_name, 0)
            = DictGet(prices, pool[j].market_hash_name, 0)

\* C10: sharpe_ratio is expected_return / risk when risk > 0 and +infinity
\* when risk is 0; for every outcome pool with a single item, or with no
\* price spread, risk is 0 and sharpe_ratio is +infinity.
C10_ZeroRiskGivesInfinity ==
    op = "calculate_risk_metrics" =>
        /\ ret.raised = NoRaise
        /\ IF ret.risk_percent = QZero
           THEN ret.sharpe_ratio.inf
           ELSE /\ ~ret.sharpe_ratio.inf
                /\ QMul(ret.sharpe_ratio.val, ret.risk_percent) = ret.expected_return_percent
        /\ (Len(args.pool) = 1 \/ NoPriceSpread(args.pool, args.outcome_prices)) =>
               /\ ret.risk_percent = QZero
               /\ ret.sharpe_ratio.inf

\* the price calculate_risk_metrics reads for an outcome name: the entry of
\* the price map, 0 for a name the map does not hold
PriceRead(prices, name) ==
    IF \E i \in DOMAIN prices : prices[i][1] = name
    THEN (CHOOSE kv \in Range(prices) : kv[1] = name)[2]
    ELSE 0

\* the prices read for the outcomes of a distribution
PricesRead(probs, prices) == {PriceRead(prices, probs[i][1]) : i \in DOMAIN probs}

SetMin(S) == CHOOSE x \in S : \A y \in S : x <= y
SetMax(S) == CHOOSE x \in S : \A y \in S : y <= x

C12_MarginGuarded ==
    op = "calculate_expected_value" =>
        LET cost == SumPrices(args.tradeup_input.input_skins,
                              Len(args.tradeup_input.input_skins))
        IN  /\ ret.raised = NoRaise
            /\ ret.total_input_cost_cents = cost
            /\ IF cost = 0
               THEN ret.profit_margin_percent = QZero
               ELSE QMul(ret.profit_margin_percent, QInt(cost))
                        = QMul(ret.expected_profit_cents, QInt(100))

\* C12 witness: ten free items, a nonzero expected profit, margin 0
C12_Witness ==
    /\ op = "calculate_expected_value"
    /\ ret.total_input_cost_cents = 0
    /\ ret.expected_profit_cents # QZero
    /\ ret.profit_margin_percent = QZero

\* C12 witness of the other branch: a nonzero cost and a nonzero margin
C12_WitnessNonzeroCost ==
    /\ op = "calculate_expected_value"
    /\ ret.total_input_cost_cents > 0
    /\ ret.profit_margin_percent # QZero

\* all input floats of a nonempty list are equal: the float range has zero width
AllFloatsEqual(items) ==
    /\ items # <<>>
    /\ \A i, j \in DOMAIN items : items[i].float_value = items[j].float_value

\* C13: on each degenerate input (an empty outcome pool, a total input cost
\* of 0, input floats all equal, outcome prices all equal) the four
\* calculations raise nothing and return the sentinel: no outcome
\* probabilities for an empty pool, a margin of 0 for a cost of 0, a sharpe
\* ratio of +infinity for a cost of 0 or a pool without price spread.
C13_DegenerateInputsGiveSentinels ==
    /\ op = "calculate_expected_value" =>
          /\ ret.raised = NoRaise
          /\ args.outcome_collection_skins = <<>> =>
                 (ret.possible_outcomes = <<>> /\ ret.expected_output_value_cents = QZero)
          /\ ret.total_input_cost_cents = 0 => ret.profit_margin_percent = QZero
    /\ (op = "calculate_outcome_probabilities"
           /\ (args.outcome_collection = <<>> \/ AllFloatsEqual(args.input_skins))) =>
          /\ ret.raised = NoRaise
          /\ args.outcome_collection = <<>> =>
                 (ret.outcome_probabilities = EmptyDict /\ ret.float_distribution = EmptyDict)
          /\ args.outcome_collection # <<>> =>
                 (\A i \in DOMAIN ret.float_distribution :
                      ret.float_distribution[i][2] \in {QZero, QOne})
    /\ op = "calculate_expected_value_with_uncertainty" =>
          /\ ret.raised = NoRaise
          /\ args.pool = <<>> => ret.profit_probability = QZero
    /\ op = "calculate_risk_metrics" =>
          /\ ret.raised = NoRaise
          /\ (\/ args.pool = <<>>
              \/ args.input_cost = 0
              \/ NoPriceSpread(args.pool, args.outcome_prices)) => ret.sharpe_ratio.inf

\* C14: every TradeupInput whose construction succeeds, and so every contract
\* passed to calculate_expected_value, has exactly 10 items of one rarity,
\* with the stattrak flag uniform, the souvenir flag uniform, and never both
\* variants present.
C14_ConstructedContractIsValid ==
    /\ (op = "TradeupInput" /\ ret.raised = NoRaise) => ValidContract(ret.input_skins)
    /\ op = "calculate_expected_value" => ValidContract(args.tradeup_input.input_skins)

\* the part of C14 the constructor does enforce: ten items
C14_ConstructedContractHasTen ==
    /\ (op = "TradeupInput" /\ ret.raised = NoRaise) => Len(ret.input_skins) = 10
    /\ (op = "TradeupInput" /\ ret.raised # NoRaise) => Len(args.input_skins) # 10
    /\ op = "calculate_expected_value" => Len(args.tradeup_input.input_skins) = 10

\* the tiers whose half-open interval [min_float, max_float) contains f
TiersContaining(f) ==
    {i \in DOMAIN WearTier :
        QLe(WearTier[i].min_float, f) /\ QLt(f, WearTier[i].max_float)}

\* C15: the five WearTier intervals are [0,0.07), [0.07,0.15), [0.15,0.38),
\* [0.38,0.45), [0.45,1.00): ordered, contiguous, non-overlapping, covering
\* [0,1); from_float returns, for every float in [0,1), the one tier whose
\* interval contains it, and Battle-Scarred for 1.0.
C15_TiersPartitionUnitInterval ==
    op = "from_float" =>
        LET f == args.float_value
        IN  /\ [i \in DOMAIN WearTier |-> <<WearTier[i].min_float, WearTier[i].max_float>>]
                  = << <<Q(0, 1), Q(7, 100)>>, <<Q(7, 100), Q(15, 100)>>,
                       <<Q(15, 100), Q(38, 100)>>, <<Q(38, 100), Q(45, 100)>>,
                       <<Q(45, 100), Q(1, 1)>> >>
            /\ \A i \in DOMAIN WearTier : QLt(WearTier[i].min_float, WearTier[i].max_float)
            /\ \A i \in 1..(Len(WearTier) - 1) :
                   WearTier[i].max_float = WearTier[i + 1].min_float
            /\ (QLe(QZero, f) /\ QLt(f, QOne)) =>
                   /\ Cardinality(TiersContaining(f)) = 1
                   /\ \A i \in TiersContaining(f) : ret.value = WearTier[i]
            /\ f = QOne => ret.value.display_name = "Battle-Scarred"

\* C15 witness: the boundary 0.07 belongs to Minimal Wear, not Factory New
C15_Witness ==
    /\ op = "from_float"
    /\ args.float_value = Q(7, 100)
    /\ ret.value.display_name = "Minimal Wear"

\* C15 witness of the fallback: 1.0 is in no half-open interval
C15_WitnessOne ==
    /\ op = "from_float"
    /\ args.float_value = QOne
    /\ TiersContaining(args.float_value) = {}
    /\ ret.value.display_name = "Battle-Scarred"

OneRarity(items) == \A i, j \in DOMAIN items : items[i].rarity = items[j].rarity

\* 1 when the condition holds, else 0
Indicator(b) == IF b THEN 1 ELSE 0

\* C16: on ten items of one rarity with s stattrak and v souvenir items, the
\* stattrak violation is reported iff 0 < s < 10, the souvenir violation iff
\* 0 < v < 10, the cannot-mix violation iff s > 0 and v > 0, and nothing else
\* is reported; 3 stattrak of 10 give exactly one violation, 5 stattrak plus
\* 5 souvenir give exactly the three together.
C16_FlagViolations ==
    (/\ op = "validate_tradeup_inputs"
     /\ Len(args.input_skins) = 10
     /\ OneRarity(args.input_skins))
        => LET items == args.input_skins
               errors == ret.value
               s == NumWhere(items, IsStattrak)
               v == NumWhere(items, IsSouvenir)
           IN  /\ StattrakReported(errors) <=> (0 < s /\ s < 10)
               /\ SouvenirReported(errors) <=> (0 < v /\ v < 10)
               /\ MixReported(errors) <=> (s > 0 /\ v > 0)
               /\ Len(errors) = Indicator(0 < s /\ s < 10) + Indicator(0 < v /\ v < 10)
                                    + Indicator(s > 0 /\ v > 0)
               /\ (s = 3 /\ v = 0) =>
                      errors = <<"Either all or no input skins can be StatTrak">>
               /\ (s = 5 /\ v = 5) =>
                      errors = <<"Either all or no input skins can be StatTrak",
                                 "Either all or no input skins can be Souvenir",
                                 "Cannot mix StatTrak and Souvenir skins">>

\* C16 witness: five stattrak and five souvenir items of one rarity, three violations
C16_Witness ==
    /\ op = "validate_tradeup_inputs"
    /\ Len(args.input_skins) = 10
    /\ OneRarity(args.input_skins)
    /\ NumWhere(args.input_skins, IsStattrak) = 5
    /\ NumWhere(args.input_skins, IsSouvenir) = 5
    /\ \E i \in DOMAIN args.input_skins : ~args.input_skins[i].is_stattrak
    /\ Len(ret.value) = 3

\* C16 witness of the single violation: three stattrak items of ten
C16_WitnessThreeStattrak ==
    /\ op = "validate_tradeup_inputs"
    /\ Len(args.input_skins) = 10
    /\ OneRarity(args.input_skins)
    /\ NumWhere(args.input_skins, IsStattrak) = 3
    /\ NumWhere(args.input_skins, IsSouvenir) = 0
    /\ Len(ret.value) = 1

\* C17: for every list of n # 10 items of one rarity without stattrak or
\* souvenir flags, validate_tradeup_inputs returns exactly one violation, and
\* it names the count n.
C17_WrongCountNamesCount ==
    (/\ op = "validate_tradeup_inputs"
     /\ Len(args.input_skins) # 10
     /\ OneRarity(args.input_skins)
     /\ \A i \in DOMAIN args.input_skins :
           ~args.input_skins[i].is_stattrak /\ ~args.input_skins[i].is_souvenir)
        => /\ Len(ret.value) = 1
           /\ ret.value[1] = "Tradeup requires exactly 10 skins, got "
                                 \o ToString(Len(args.input_skins))
           /\ Len(args.input_skins) = 9 =>
                  ret.value = <<"Tradeup requires exactly 10 skins, got 9">>

\* C17 witness: nine plain items of one rarity
C17_Witness ==
    /\ op = "validate_tradeup_inputs"
    /\ Len(args.input_skins) = 9
    /\ OneRarity(args.input_skins)
    /\ \A i \in DOMAIN args.input_skins :
          ~args.input_skins[i].is_stattrak /\ ~args.input_skins[i].is_souvenir
    /\ ret.value = <<"Tradeup requires exactly 10 skins, got 9">>

C19_PointRangeGoesToItsTier ==
    (/\ op = "calculate_outcome_probabilities"
     /\ args.outcome_collection # <<>>
     /\ AllFloatsEqual(args.input_skins))
        => /\ ret.raised = NoRaise
           /\ Len(ret.float_distribution) = 5
           /\ \A i \in DOMAIN ret.float_distribution :
                  ret.float_distribution[i][2] =
                      IF \/ i \in TiersContaining(args.input_skins[1].float_value)
                         \/ (i = 5 /\ args.input_skins[1].float_value = QOne)
                      THEN QOne ELSE QZero

\* the statistical range [max(0, mean - stddev), min(1, mean + stddev)] of a
\* nonempty list of floats, the stddev of a single float being 0
StatisticalRange(floats) ==
    LET m == mean(floats)
        sd == IF Len(floats) > 1 THEN stdev(floats) ELSE QZero
    IN  <<QMax(QZero, QSub(m, sd)), QMin(QOne, QAdd(m, sd))>>

\* the length of the overlap of [lo, hi] with the interval of a tier
OverlapLength(lo, hi, tier) ==
    LET from == QMax(lo, tier.min_float)
        to == QMin(hi, tier.max_float)
    IN  IF QLt(from, to) THEN QSub(to, from) ELSE QZero

\* C20: when the statistical range [lo, hi] of the input floats has hi > lo,
\* then 0 <= lo < hi <= 1 and the probability of each wear tier is the length
\* of the overlap of [lo, hi] with the tier's interval divided by hi - lo,
\* which is 0 for a tier that does not overlap [lo, hi].
C20_TierProbabilityIsOverlapShare ==
    (/\ op = "calculate_outcome_probabilities"
     /\ args.outcome_collection # <<>>
     /\ args.input_skins # <<>>)
        => LET range == StatisticalRange(FloatsOf(args.input_skins))
               lo == range[1]
               hi == range[2]
           IN  QLt(lo, hi) =>
                   /\ ret.raised = NoRaise
                   /\ QLe(QZero, lo) /\ QLe(hi, QOne)
                   /\ Len(ret.float_distribution) = Len(WearTier)
                   /\ \A i \in DOMAIN WearTier :
                          /\ ret.float_distribution[i][1] = WearTier[i].name
                          /\ QMul(ret.float_distribution[i][2], QSub(hi, lo))
                                 = OverlapLength(lo, hi, WearTier[i])
                          /\ OverlapLength(lo, hi, WearTier[i]) = QZero =>
                                 ret.float_distribution[i][2] = QZero

\* C20 witness: a range of nonzero width lying over some tiers and clear of another
C20_Witness ==
    /\ op = "calculate_outcome_probabilities"
    /\ args.outcome_collection # <<>>
    /\ args.input_skins # <<>>
    /\ LET range == StatisticalRange(FloatsOf(args.input_skins))
       IN  /\ QLt(range[1], range[2])
           /\ Cardinality({i \in DOMAIN WearTier :
                              OverlapLength(range[1], range[2], WearTier[i]) # QZero}) >= 2
           /\ \E i \in DOMAIN WearTier :
                  OverlapLength(range[1], range[2], WearTier[i]) = QZero
    /\ \E i \in DOMAIN ret.float_distribution :
           QLt(QZero, ret.float_distribution[i][2]) /\ QLt(ret.float_distribution[i][2], QOne)

\* C20 witness of the clamping: mean + stddev above 1 is cut to 1
C20_WitnessClamped ==
    /\ op = "calculate_outcome_probabilities"
    /\ args.outcome_collection # <<>>
    /\ Len(args.input_skins) > 1
    /\ QLt(QOne, QAdd(mean(FloatsOf(args.input_skins)), stdev(FloatsOf(args.input_skins))))
    /\ ret.raised = NoRaise

\* sd is the square root of max(v, 0): exactly, or as the least multiple of
\* 1/MathSqrtRes above an irrational root
IsRootOfClamped(sd, v) ==
    IF QLe(v, QZero) THEN sd = QZero
    ELSE /\ QLt(QZero, sd)
         /\ \/ QMul(sd, sd) = v
            \/ /\ QLt(v, QMul(sd, sd))
               /\ QLe(QMul(QSub(sd, Q(1, MathSqrtRes)), QSub(sd, Q(1, MathSqrtRes))), v)

\* C21: lower_bound = expected_profit - z*sd and upper_bound =
\* expected_profit + z*sd, where sd^2 = max(sum p_i*price_i^2 -
\* (sum p_i*price_i)^2, 0), z = 1.96 when confidence_level is exactly 0.95 and
\* 2.576 for every other level, levels below 0.95 included; hence
\* lower_bound <= expected_value <= upper_bound.
C21_ConfidenceBounds ==
    op = "calculate_expected_value_with_uncertainty" =>
        LET probs == args.outcome_probabilities
            Price(i) == PriceRead(args.outcome_prices, probs[i][1])
            m1 == QSum([i \in DOMAIN probs |-> QMul(probs[i][2], QInt(Price(i)))])
            m2 == QSum([i \in DOMAIN probs |-> QMul(probs[i][2], QInt(Price(i) * Price(i)))])
            profit == QSub(m1, QInt(args.input_cost))
            sd == ret.standard_deviation
            z == IF args.confidence_level = Q(95, 100) THEN Q(196, 100) ELSE Q(2576, 1000)
        IN  /\ ret.raised = NoRaise
            /\ ret.expected_value = profit
            /\ IsRootOfClamped(sd, QSub(m2, QMul(m1, m1)))
            /\ ret.lower_bound = QSub(profit, QMul(z, sd))
            /\ ret.upper_bound = QAdd(profit, QMul(z, sd))
            /\ QLe(ret.lower_bound, ret.expected_value)
            /\ QLe(ret.expected_value, ret.upper_bound)

\* C21 witness: a 90% level on a pool with price spread gets the 2.576 interval
C21_Witness ==
    /\ op = "calculate_expected_value_with_uncertainty"
    /\ args.confidence_level = Q(90, 100)
    /\ QLt(QZero, ret.standard_deviation)
    /\ QSub(ret.upper_bound, ret.lower_bound)
           = QMul(Q(5152, 1000), ret.standard_deviation)

\* C22: calculate_expected_value gives each of the N items of a nonempty
\* outcome pool the probability 1/N; possible_outcomes holds exactly the items
\* of the pool, once per occurrence and in the pool's order, so its
\* probabilities sum to 1.
C22_UniformOverPool ==
    (op = "calculate_expected_value" /\ args.outcome_collection_skins # <<>>) =>
        LET pool == args.outcome_collection_skins
            outcomes == ret.possible_outcomes
        IN  /\ Len(outcomes) = Len(pool)
            /\ \A i \in DOMAIN pool :
                   /\ outcomes[i].skin_data = pool[i]
                   /\ outcomes[i].probability = Q(1, Len(pool))
            /\ QSum([i \in DOMAIN outcomes |-> outcomes[i].probability]) = QOne

\* C22 witness: a pool that repeats an item keeps both occurrences
C22_Witness ==
    /\ op = "calculate_expected_value"
    /\ Len(args.outcome_collection_skins) = 3
    /\ args.outcome_collection_skins[1] = args.outcome_collection_skins[2]
    /\ Len(ret.possible_outcomes) = 3
    /\ \A i \in DOMAIN ret.possible_outcomes : ret.possible_outcomes[i].probability = Q(1, 3)

\* the floats of a list of items, as a set
FloatSet(items) == {items[i].float_value : i \in DOMAIN items}

\* C23: every outcome of possible_outcomes carries the same float range tag
\* (min(input floats), max(input floats)), with min <= max; the tag is
\* computed from the ten input floats alone, not from their mean or
\* standard deviation.
C23_FloatRangeTag ==
    op = "calculate_expected_value" =>
        LET floats == FloatSet(args.tradeup_input.input_skins)
        IN  \A i \in DOMAIN ret.possible_outcomes :
                LET tag == ret.possible_outcomes[i].expected_float_range
                IN  /\ tag[1] \in floats /\ \A f \in floats : QLe(tag[1], f)
                    /\ tag[2] \in floats /\ \A f \in floats : QLe(f, tag[2])
                    /\ QLe(tag[1], tag[2])
                    /\ tag = ret.possible_outcomes[1].expected_float_range

\* C23 witness: floats 0.10 and 0.40 in unequal numbers, so that the mean is
\* neither the midpoint nor an end of the tag
C23_Witness ==
    /\ op = "calculate_expected_value"
    /\ Len(ret.possible_outcomes) >= 2
    /\ FloatSet(args.tradeup_input.input_skins) = {Q(10, 100), Q(40, 100)}
    /\ NumWhere(args.tradeup_input.input_skins, LAMBDA it : it.float_value = Q(40, 100)) = 3
    /\ \A i \in DOMAIN ret.possible_outcomes :
           ret.possible_outcomes[i].expected_float_range = <<Q(10, 100), Q(40, 100)>>

\* C24: _calculate_float_statistics returns expected_float = the arithmetic
\* mean of the input floats and float_variance = the sample variance
\* (denominator n - 1) when n >= 2 and 0 when n < 2; float_variance is never
\* negative and expected_float lies between the least and the greatest input
\* float.
C24_FloatStatistics ==
    op = "_calculate_float_statistics" =>
        LET xs == FloatsOf(args.input_skins)
            n == Len(xs)
            expected_float == ret.value[1]
            float_variance == ret.value[2]
            squares == QSum([i \in DOMAIN xs |-> QMul(xs[i], xs[i])])
        IN  /\ ret.raised = NoRaise
            /\ n >= 1 => QMul(expected_float, QInt(n)) = QSum(xs)
            /\ n >= 2 => QMul(float_variance, QInt(n - 1))
                             = QSub(squares, QMul(QInt(n), QMul(expected_float, expected_float)))
            /\ n < 2 => float_variance = QZero
            /\ QLe(QZero, float_variance)
            /\ n >= 1 => /\ \E f \in Range(xs) : QLe(f, expected_float)
                         /\ \E f \in Range(xs) : QLe(expected_float, f)

\* C24 witness: three floats, two of them equal, with a positive sample variance
C24_Witness ==
    /\ op = "_calculate_float_statistics"
    /\ Len(args.input_skins) = 3
    /\ FloatSet(args.input_skins) = {Q(10, 100), Q(40, 100)}
    /\ QLt(QZero, ret.value[2])
    /\ QMul(ret.value[2], QInt(2)) = Q(6, 100)

\* C25: in every sequence of _rate_limit calls on one CSFloatAPI instance, at
\* most max_requests_per_minute calls return within any 60-second interval of
\* the clock.
C25_AtMostMaxPerMinute ==
    api # NoAPI => Len(returned_at) <= api.max_requests_per_minute

\* the limit that does hold: a window of two minutes never sees more than
\* twice max_requests_per_minute returns, a single minute can see that many
C25_AtMostTwiceMaxPerMinute ==
    api # NoAPI => Len(returned_at) <= 2 * api.max_requests_per_minute

\* C27: after every return of _rate_limit, for max_requests_per_minute >= 1
\* and a non-decreasing clock, 1 <= request_count <= max_requests_per_minute,
\* and request_count is the number of _rate_limit calls that have returned
\* since minute_start_time was last set.
C27_RequestCountInvariant ==
    api # NoAPI =>
        /\ api.request_count = returns_since_start
        /\ api.request_count <= api.max_requests_per_minute
        /\ returned_at # <<>> => api.request_count >= 1
        /\ api.minute_start_time <= clock

\* C27 witness: the counter has reached the limit, slept, and started again at 1
C27_Witness ==
    /\ api # NoAPI
    /\ api.max_requests_per_minute = 2
    /\ api.request_count = 1
    /\ api.minute_start_time > Minute
    /\ api.minute_start_time = clock
    /\ returns_since_start = 1
    /\ Len(returned_at) = 1

\* the skin name of a listing, where the CSFloat format keeps it
ItemName(listing) ==
    LET item == (CHOOSE kv \in Range(listing) : kv[1] = "item")[2]
    IN  (CHOOSE kv \in Range(item) : kv[1] = "market_hash_name")[2]

\* the positions at which a skin name occurs for the first time
FirstOccurrences(listings) ==
    {i \in DOMAIN listings : \A j \in 1..(i - 1) : ItemName(listings[j]) # ItemName(listings[i])}

\* C26: get_outcome_skins returns exactly one SkinData for each distinct skin
\* name (item.market_hash_name) of the fetched listings, in the order of
\* first occurrence; a response listing k distinct skins yields k outcomes.
C26_OneOutcomePerSkinName ==
    op = "get_outcome_skins" =>
        LET listings == args.listings
            names == {ItemName(listings[i]) : i \in DOMAIN listings}
            out == ret.value
        IN  /\ ret.raised = NoRaise
            /\ Len(out) = Cardinality(names)
            /\ {out[i].market_hash_name : i \in DOMAIN out} = names
            /\ \A i, j \in DOMAIN out :
                   i # j => out[i].market_hash_name # out[j].market_hash_name
            /\ \A i, j \in DOMAIN out : i < j =>
                   \E a, b \in FirstOccurrences(listings) :
                       /\ a < b
                       /\ ItemName(listings[a]) = out[i].market_hash_name
                       /\ ItemName(listings[b]) = out[j].market_hash_name

\* the probability mass of the outcomes whose price, read as by PriceRead,
\* is at most the cost
MassAtOrBelow(probs, prices, cost) ==
    QSum([i \in DOMAIN probs |->
             IF PriceRead(prices, probs[i][1]) <= cost THEN probs[i][2] ELSE QZero])

MassAbove(probs, prices, cost) ==
    QSum([i \in DOMAIN probs |->
             IF PriceRead(prices, probs[i][1]) > cost THEN probs[i][2] ELSE QZero])

\* C28: loss_probability is 1 - profit_probability of the same arguments,
\* hence the probability mass of the outcomes priced at or below the input
\* cost (an outcome priced exactly at cost is a loss, a name missing from the
\* price map is priced 0), and it lies in [0,1] whenever the probabilities
\* sum to at most 1.
C28_LossIsMassAtOrBelowCost ==
    op = "calculate_risk_metrics" =>
        LET probs == args.outcome_probabilities
            prices == args.outcome_prices
            cost == args.input_cost
        IN  /\ ret.loss_probability = QSub(QOne, MassAbove(probs, prices, cost))
            /\ ret.loss_probability = MassAtOrBelow(probs, prices, cost)
            /\ QLe(QSum(DictValues(probs)), QOne) =>
                   (QLe(QZero, ret.loss_probability) /\ QLe(ret.loss_probability, QOne))

\* C28 amended: loss_probability is 1 - profit_probability of the same
\* arguments, that is the probability mass priced at or below the input cost
\* plus whatever mass the probabilities lack to sum to 1; it is the mass at or
\* below cost when they sum to 1, and lies in [0,1] when they sum to at most 1.
C28_LossIsComplementOfProfit ==
    op = "calculate_risk_metrics" =>
        LET probs == args.outcome_probabilities
            prices == args.outcome_prices
            cost == args.input_cost
            total == QSum(DictValues(probs))
        IN  /\ ret.loss_probability = QSub(QOne, MassAbove(probs, prices, cost))
            /\ ret.loss_probability
                   = QAdd(MassAtOrBelow(probs, prices, cost), QSub(QOne, total))
            /\ total = QOne =>
                   ret.loss_probability = MassAtOrBelow(probs, prices, cost)
            /\ QLe(total, QOne) =>
                   (QLe(QZero, ret.loss_probability) /\ QLe(ret.loss_probability, QOne))

\* C28 witness: three outcomes of probability 1/3, one priced above the cost,
\* one at the cost and one missing from the price map
C28_Witness ==
    /\ op = "calculate_risk_metrics"
    /\ Len(args.outcome_probabilities) = 3
    /\ \E i \in DOMAIN args.outcome_probabilities :
           PriceRead(args.outcome_prices, args.outcome_probabilities[i][1]) = args.input_cost
    /\ \E i \in DOMAIN args.outcome_probabilities :
           PriceRead(args.outcome_prices, args.outcome_probabilities[i][1]) > args.input_cost
    /\ \E i \in DOMAIN args.outcome_probabilities :
           \A j \in DOMAIN args.outcome_prices :
               args.outcome_prices[j][1] # args.outcome_probabilities[i][1]
    /\ ret.loss_probability = Q(2, 3)

\* C29: calculate_outcome_probabilities called with an empty list of input
\* items and a nonempty outcome pool does not raise and returns a
\* ProbabilityDistribution with expected_float 0 and float_variance 0.
C29_EmptyInputsGiveZeroStatistics ==
    (/\ op = "calculate_outcome_probabilities"
     /\ args.input_skins = <<>>
     /\ args.outcome_collection # <<>>)
        => /\ ret.raised = NoRaise
           /\ ret.expected_float = QZero
           /\ ret.float_variance = QZero

\* the collection's weapons of a rarity: the list its weapons map holds
\* under that rarity name, empty for a name that is no collection's key and
\* for a rarity the collection has no weapons of
WeaponsOfRarity(collection_name, rarity) ==
    IF \E i \in DOMAIN collections : collections[i][1] = collection_name
    THEN LET collection ==
                 collections[CHOOSE i \in DOMAIN collections :
                                 collections[i][1] = collection_name][2]
             weapons == collection[CHOOSE i \in DOMAIN collection :
                                       collection[i][1] = "weapons"][2]
         IN  IF \E i \in DOMAIN weapons : weapons[i][1] = rarity
             THEN weapons[CHOOSE i \in DOMAIN weapons : weapons[i][1] = rarity][2]
             ELSE <<>>
    ELSE <<>>

C30_WitnessFails ==
    /\ op = "get_tradeup_outcomes"
    /\ args.collection_name = "Dust 2 Collection"
    /\ args.input_rarity \in {"Covert", "Unknown"}
    /\ ret.value = <<>>
====
